---------------------------- MODULE Spec2Model ----------------------------
(***************************************************************************)
(* Driving control core of the winter driving simulator.                   *)
(*                                                                         *)
(* The repository holds two versions of the Vehicle class.  The current    *)
(* one (src/unnamed/part_001) is modelled by the actions update,           *)
(* createPhysicsChassis, loadModel and physicsStep; the older one          *)
(* (src/src/vehicle/Vehicle.js) by updateLegacy.  The InputManager         *)
(* (keydown, keyup, mousemove, inputUpdate), the GameState                 *)
(* (gameStateUpdate, togglePause, setSimulationSpeed) and the animation    *)
(* loop of the DrivingSimulator (animateGameState, animateInput,           *)
(* animatePhysics, animateVehicle) follow.                                 *)
(*                                                                         *)
(* Numbers are fixed point, every quantity an integer number of units:     *)
(*   steering input, throttle, brake   1/1000                              *)
(*   time                              1 ms                                *)
(*   angles                            1 microradian                       *)
(*   velocity                          1/180 m/s                           *)
(*   speed                             1/1800 km/h  (KMH units per km/h)   *)
(*   wheel forces                      1 mN                                *)
(* A product of two fixed-point numbers is rounded toward zero (Quot).     *)
(***************************************************************************)
EXTENDS Integers, Sequences, FiniteSets, TLC

VARIABLES
  vehicleSet,       \* this.vehicle # null (the RaycastVehicle exists)
  chassisSet,       \* this.chassis # null (the visual chassis exists)
  calls,            \* number of Vehicle.update calls made so far
  outcome,          \* how the latest update call ended
  steeringAngle,    \* this.steeringAngle
  speed,            \* this.speed
  inputs,           \* the input frame of the latest processed update
  estimate,         \* isMovingForward / actualSpeed of the latest updateEngine
  wheelSteering,    \* vehicle.wheelInfos[i].steering
  wheelEngine,      \* vehicle.wheelInfos[i].engineForce
  wheelBrake,       \* vehicle.wheelInfos[i].brake
  bodyVel,          \* chassisBody.velocity
  bodyQuat,         \* chassisBody.quaternion
  bodyPos,          \* chassisBody.position
  bodyForce,        \* chassisBody.force
  bodyTorque,       \* chassisBody.torque
  impulse,          \* local impulse applied by the latest updateEngine
  chassisVis,       \* position / quaternion of the visual chassis
  wheelsVis,        \* transforms of the visual wheels
  steeringWheelRot, \* steeringWheel.rotation.y
  userData,         \* chassis.userData (steeringInput, velocity)
  handsSteering,    \* steering input last given to Hands.update
  keys,             \* InputManager: the names k with keys[k] true
  mousePositionX,   \* InputManager: mousePosition.x
  imSteeringWheel,  \* InputManager: this.steeringWheel
  imThrottle,       \* InputManager: this.throttle
  imBrake,          \* InputManager: this.brake
  imDt,             \* deltaTime the latest InputManager.update worked with
  lastUpdateTime,   \* GameState: this.lastUpdateTime, ms
  isPaused,         \* GameState: this.isPaused
  simulationSpeed,  \* GameState: this.simulationSpeed, 1/10
  delta,            \* value the latest GameState.update returned, ms
  lastCallTime,     \* clock reading of the latest GameState.update call, ms
  pc,               \* DrivingSimulator.animate: the call it has reached
  gameStarted,      \* DrivingSimulator: this.gameStarted
  stepDt,           \* deltaTime given to the latest Physics.update
  vehDt,            \* deltaTime given to the latest Vehicle.update
  stepSaw,          \* wheel values and torque the latest world.step worked with
  acosArg,          \* vehicleUp.dot(worldUp) given to Math.acos, 1/1000
  tiltNaN,          \* whether tiltAngle is NaN
  tiltOver,         \* whether tiltAngle > Math.PI / 6 was true
  syncRuns,         \* runs of the transform synchronizer since the body last changed
  camVehicle,       \* CameraManager: this.vehicle # null
  currentMode,      \* CameraManager: this.currentMode
  isTransitioning,  \* CameraManager: this.isTransitioning
  transitionProgress, \* CameraManager: this.transitionProgress, 1/1000
  transitionCallback, \* CameraManager: this.transitionCallback
  transitionRequests, \* number of transitionToGameView calls made so far
  callbackRuns,     \* number of times a transition callback was invoked
  camTick,          \* parity of the number of CameraManager.update calls
  camDt,            \* deltaTime given to the latest CameraManager.update, ms
  steerLo,          \* the smaller of two steering inputs given to updateSteering
  steerHi,          \* the larger of the two steering inputs
  steerSpd,         \* the speed both are given at, 1/1800 km/h
  targetLo,         \* targetAngle computed for steerLo
  targetHi          \* targetAngle computed for steerHi

\* the Vehicle and the physics body
vehicleVars ==
  <<vehicleSet, chassisSet, calls, outcome, steeringAngle, speed, inputs,
    estimate, wheelSteering, wheelEngine, wheelBrake, bodyVel, bodyQuat,
    bodyPos, bodyForce, bodyTorque, impulse, chassisVis, wheelsVis,
    steeringWheelRot, userData, handsSteering>>

\* the InputManager
inputVars ==
  <<keys, mousePositionX, imSteeringWheel, imThrottle, imBrake, imDt>>

\* the GameState
gameVars == <<lastUpdateTime, isPaused, simulationSpeed, delta, lastCallTime>>

\* the animation loop
loopVars == <<pc, gameStarted, stepDt, vehDt, stepSaw>>

\* everything but the Vehicle and the physics body
\* the tilt computation of updateEngine taken alone
tiltVars == <<acosArg, tiltNaN, tiltOver>>

\* the transform synchronizer called on its own
syncVars == <<syncRuns>>

\* the CameraManager
cameraVars ==
  <<camVehicle, currentMode, isTransitioning, transitionProgress,
    transitionCallback, transitionRequests, callbackRuns, camTick, camDt>>

\* the target angle of updateSteering taken alone for two inputs
targetVars == <<steerLo, steerHi, steerSpd, targetLo, targetHi>>

outsideVehicle ==
  <<inputVars, gameVars, loopVars, tiltVars, syncVars, cameraVars, targetVars>>

vars ==
  <<vehicleVars, inputVars, gameVars, loopVars, tiltVars, syncVars, cameraVars,
    targetVars>>

(***************************************************************************)
(* Bounds of the model.                                                    *)
(***************************************************************************)
MaxTicks == 2

\* frames of the animation loop
MaxFrames == 4

\* latest clock reading, ms
MaxClock == 400

(***************************************************************************)
(* Arithmetic.                                                             *)
(***************************************************************************)
Abs(x) == IF x < 0 THEN -x ELSE x

Min(a, b) == IF a < b THEN a ELSE b

Max(a, b) == IF a > b THEN a ELSE b

\* a / b rounded toward zero (b > 0)
Quot(a, b) == IF a >= 0 THEN a \div b ELSE -((-a) \div b)

\* units of speed per km/h
KMH == 1800

\* units of velocity per m/s
MPS == 180

Vec3(x, y, z) == <<x, y, z>>

Zero3 == <<0, 0, 0>>

Dot(a, b) == a[1] * b[1] + a[2] * b[2] + a[3] * b[3]

Cross(a, b) == <<a[2] * b[3] - a[3] * b[2],
                 a[3] * b[1] - a[1] * b[3],
                 a[1] * b[2] - a[2] * b[1]>>

vadd(a, b) == <<a[1] + b[1], a[2] + b[2], a[3] + b[3]>>

scale(a, k) == <<a[1] * k, a[2] * k, a[3] * k>>

\* Quaternions are <<x, y, z, w>> with integer components; the tuple q stands
\* for the unit quaternion q / |q|, so that quarter turns (1, 0, 0, 1) are
\* exact.  Identity is a fresh CANNON.Quaternion.
Identity == <<0, 0, 0, 1>>

\* setFromAxisAngle((0, 1, 0), Math.PI)
HalfTurnY == <<0, 1, 0, 0>>

\* the body upside down (half turn about its forward axis)
HalfTurnZ == <<0, 0, 1, 0>>

\* heading turned by 90 degrees
QuarterTurnY == <<0, 1, 0, 1>>

\* the body lying on its side (tilt 90 degrees)
QuarterTurnZ == <<0, 0, 1, 1>>

\* the body rolled by 2 atan(1/4), about 28 degrees
SmallRollZ == <<0, 0, 1, 4>>

Norm2(q) == q[1] * q[1] + q[2] * q[2] + q[3] * q[3] + q[4] * q[4]

\* cannon-es Quaternion.vmult: the vector v rotated by the unit quaternion
\* that q stands for (the integer formula gives |q|^2 times the result)
vmult(q, v) ==
  LET qx == q[1] qy == q[2] qz == q[3] qw == q[4]
      x == v[1] y == v[2] z == v[3]
      ix == qw * x + qy * z - qz * y
      iy == qw * y + qz * x - qx * z
      iz == qw * z + qx * y - qy * x
      iw == -qx * x - qy * y - qz * z
      n == Norm2(q)
  IN <<Quot(ix * qw + iw * (-qx) + iy * (-qz) - iz * (-qy), n),
       Quot(iy * qw + iw * (-qy) + iz * (-qx) - ix * (-qz), n),
       Quot(iz * qw + iw * (-qz) + ix * (-qy) - iy * (-qx), n)>>

\* cannon-es Quaternion.mult: the product q * p
qmult(q, p) ==
  LET ax == q[1] ay == q[2] az == q[3] aw == q[4]
      bx == p[1] by == p[2] bz == p[3] bw == p[4]
  IN <<ax * bw + aw * bx + ay * bz - az * by,
       ay * bw + aw * by + az * bx - ax * bz,
       az * bw + aw * bz + ax * by - ay * bx,
       aw * bw - ax * bx - ay * by - az * bz>>


(***************************************************************************)
(* Program constants of the current Vehicle (src/unnamed/part_001).        *)
(***************************************************************************)
\* this.maxForce, newtons
maxForce == 4000

\* this.maxBrakeForce, newtons
maxBrakeForce == 500

\* this.maxSteeringAngle = Math.PI / 4, microradians
maxSteeringAngle == 785398

\* this.steeringCorrection = 0.025, thousandths
steeringCorrection == 25

\* km/h
MAX_FORWARD_SPEED == 140

\* km/h
MAX_REVERSE_SPEED == 30

FRONT_LEFT == 0

FRONT_RIGHT == 1

BACK_LEFT == 2

BACK_RIGHT == 3

\* Indices of vehicle.wheelInfos after the four addWheel calls
WheelIdx == 0..3

\* vehicle.wheelInfos before createPhysicsChassis: no wheel
NoWheels == <<>>

\* A value per wheel, all zero (a fresh WheelInfo)
ZeroWheels == [i \in WheelIdx |-> 0]

(***************************************************************************)
(* Direction and speed estimate (updateEngine, lines 622-636).             *)
(***************************************************************************)
\* forwardDir: local (0, 0, -1) rotated by the chassis quaternion
forwardDir(q) == vmult(q, Vec3(0, 0, -1))

velInForwardDir(v, q) == Dot(v, forwardDir(q))

isMovingForward(v, q) == velInForwardDir(v, q) < 0

\* Math.abs(velInForwardDir) * 3.6: 1/180 m/s times 3.6 is 1/50 km/h,
\* which is 36 units of 1/1800 km/h
actualSpeed(v, q) == Abs(velInForwardDir(v, q)) * 36

\* The speed stored by Vehicle.update (lines 530-548): the forward vector is
\* (0, 0, -1) scaled by -1 before it is rotated.
storedSpeed(v, q) == Abs(Dot(v, vmult(q, scale(Vec3(0, 0, -1), -1)))) * 36

(***************************************************************************)
(* Steering controller (updateSteering, lines 559-608).                    *)
(***************************************************************************)
\* Math.max(-1, Math.min(1, steeringInput))
clampSteering(s) == Max(-1000, Min(1000, s))

\* Math.min(1, this.speed / 50), thousandths
driftCorrectionFactor(spd) == Min(1000, Quot(spd * 1000, 50 * KMH))

\* The steering input after the clamp and the straight-line correction
correctedInput(s, spd) ==
  LET c == clampSteering(s)
  IN IF Abs(c) < 100
       THEN c + Quot(steeringCorrection * (1000 + driftCorrectionFactor(spd)), 1000)
       ELSE c

\* -steeringInput * this.maxSteeringAngle
targetAngle(s, spd) == Quot(-correctedInput(s, spd) * maxSteeringAngle, 1000)

\* A responsiveness that is not floored at 0
speedFactorUnfloored(spd) == 1000 - Quot(spd * 1000, 200 * KMH)

\* Math.max(0, 1 - this.speed / 200), thousandths
speedFactor(spd) == Max(0, 1000 - Quot(spd * 1000, 200 * KMH))

\* Math.min(steeringSpeed * deltaTime, 1) with steeringSpeed = 5.0 * speedFactor,
\* thousandths
steeringRateUncapped(spd, dt) == Quot(5 * speedFactor(spd) * dt, 1000)

steeringRate(spd, dt) == Min(Quot(5 * speedFactor(spd) * dt, 1000), 1000)

\* this.steeringAngle after the smoothing step
nextSteeringAngle(angle, s, spd, dt) ==
  LET target == targetAngle(s, spd)
  IN IF Abs(target - angle) > 1000
       THEN angle + Quot((target - angle) * steeringRate(spd, dt), 1000)
       ELSE target

\* The four setSteeringValue calls of a mutated steering controller that
\* steers all four wheels.
steeringValuesAllWheels(angle) == [i \in WheelIdx |-> angle]

\* The four setSteeringValue calls: front pair the angle, rear pair 0
steeringValues(angle) ==
  [i \in WheelIdx |-> IF i = 0 \/ i = 1 THEN angle ELSE 0]

\* steeringWheel.rotation.y = -this.steeringAngle * 2.5
steeringWheelRotation(angle) == Quot(-angle * 25, 10)


(***************************************************************************)
(* Engine / brake force model (updateEngine, lines 648-700).               *)
(* Forces are in mN: a pedal value in thousandths times a force in N.      *)
(***************************************************************************)
\* Reverse branch of a mutated model that brakes with the plain maximum
reverseForcesPlainBrake(fwd, spd) ==
  IF fwd /\ spd > 1 * KMH
    THEN [engine |-> 0, brake |-> maxBrakeForce * 1000]
    ELSE [engine |-> IF ~fwd /\ spd > MAX_REVERSE_SPEED * KMH
                       THEN 0
                       ELSE -Quot(maxForce * 1000 * 5, 10),
          brake |-> 0]

\* Reverse branch of a mutated model that reverses with the full force
reverseForcesFullForce(fwd, spd) ==
  IF fwd /\ spd > 1 * KMH
    THEN [engine |-> 0, brake |-> Quot(maxBrakeForce * 1000 * 15, 10)]
    ELSE [engine |-> IF ~fwd /\ spd > MAX_REVERSE_SPEED * KMH
                       THEN 0
                       ELSE -(maxForce * 1000),
          brake |-> 0]

\* Reverse branch of a mutated model without the reverse speed limit
reverseForcesNoLimit(fwd, spd) ==
  IF fwd /\ spd > 1 * KMH
    THEN [engine |-> 0, brake |-> Quot(maxBrakeForce * 1000 * 15, 10)]
    ELSE [engine |-> -Quot(maxForce * 1000 * 5, 10), brake |-> 0]

\* The reverse branch (lines 653-668)
reverseForces(fwd, spd) ==
  IF fwd /\ spd > 1 * KMH
    THEN [engine |-> 0, brake |-> Quot(maxBrakeForce * 1000 * 15, 10)]
    ELSE [engine |-> IF ~fwd /\ spd > MAX_REVERSE_SPEED * KMH
                       THEN 0
                       ELSE -Quot(maxForce * 1000 * 5, 10),
          brake |-> 0]

\* Boost of a mutated engine model that ignores the throttle threshold
boostedAlways(force, throttle, boost) ==
  IF boost THEN Quot(force * 13, 10) ELSE force

\* if (boost && throttle > 0.1) engineForce *= 1.3 (lines 678-680)
boosted(force, throttle, boost) ==
  IF boost /\ throttle > 100 THEN Quot(force * 13, 10) ELSE force

\* Top-speed limit of a mutated engine model that never cuts the engine
limitTopSpeedNever(force, fwd, spd) == force

\* if (isMovingForward && actualSpeed > MAX_FORWARD_SPEED) engineForce = 0
limitTopSpeed(force, fwd, spd) ==
  IF fwd /\ spd > MAX_FORWARD_SPEED * KMH THEN 0 ELSE force

\* The forward-driving branch (lines 670-686)
forwardForces(throttle, brake, boost, fwd, spd) ==
  [engine |-> limitTopSpeed(boosted(throttle * maxForce, throttle, boost), fwd, spd),
   brake |-> brake * maxBrakeForce]

\* engineForce and brakeForce of one updateEngine call
engineForces(throttle, brake, reverse, boost, fwd, spd) ==
  IF reverse THEN reverseForces(fwd, spd)
             ELSE forwardForces(throttle, brake, boost, fwd, spd)

\* The four applyEngineForce calls (lines 689-696): the force to the front
\* pair, 0 to the rear pair
engineForceValues(force) ==
  [i \in WheelIdx |-> IF i = FRONT_LEFT \/ i = FRONT_RIGHT THEN force ELSE 0]

\* The setBrake calls of a mutated loop that brakes the front pair only
brakeValuesFrontOnly(old, force) ==
  [i \in WheelIdx |-> IF i = FRONT_LEFT \/ i = FRONT_RIGHT THEN force ELSE old[i]]

\* The four setBrake calls (line 699)
brakeValues(old, force) == [i \in WheelIdx |-> force]

(***************************************************************************)
(* Downforce and stability corrector (updateEngine, lines 702-731).        *)
(***************************************************************************)
\* Math.acos(d) is NaN outside [-1, 1]
acosIsNaN(d) == d < -1 \/ d > 1

\* Math.acos on the dot products of the model's orientations, microradians
acos(d) ==
  CASE d = 1 -> 0
    [] d = 0 -> 1570796
    [] d = -1 -> 3141593
    [] OTHER -> 0

\* cannon-es Vec3.normalize for a vector along one axis; the zero vector
\* stays zero
normalize(v) ==
  [i \in 1..3 |-> IF v[i] > 0 THEN 1 ELSE IF v[i] < 0 THEN -1 ELSE 0]

\* chassisBody.force after applyLocalForce((0, -this.speed * 8, 0), (0, 0, 0))
\* when this.speed > 10; the point is the body's centre, so no torque
downforce(force, spd, q) ==
  IF spd > 10 * KMH THEN vadd(force, vmult(q, Vec3(0, -spd * 8, 0))) ELSE force

\* `rotation` at line 715: this.chassisBody.quaternion.copy(rotation) copies
\* the fresh quaternion INTO the body's quaternion, so both are the identity
tiltRotation(q) == Identity

\* vehicleUp . worldUp (line 719)
upDot(q) == Dot(vmult(tiltRotation(q), Vec3(0, 1, 0)), Vec3(0, 1, 0))

\* tiltAngle (line 719)
tiltAngle(q) == acos(upDot(q))

\* tiltAngle > Math.PI / 6, which is 523599 microradians; a comparison with
\* NaN is false
tiltExceeds(q) == ~acosIsNaN(upDot(q)) /\ tiltAngle(q) > 523599

\* A corrector that adds a fixed torque whatever the tilt
correctedTorqueUnconditional(torque, q) == vadd(torque, Vec3(0, 0, 3000))

\* chassisBody.torque after the anti-roll correction (lines 722-731)
correctedTorque(torque, q) ==
  LET vehicleUp == vmult(tiltRotation(q), Vec3(0, 1, 0))
      axis == normalize(Cross(vehicleUp, Vec3(0, 1, 0)))
  IN IF tiltExceeds(q)
       THEN vadd(torque, scale(axis, 3000 * (tiltAngle(q) - 523599)))
       ELSE torque

(***************************************************************************)
(* Transform synchronizer (lines 737-783).                                 *)
(***************************************************************************)
\* wheelInfos[i].worldTransform after updateWheelTransform(i): a function of
\* the chassis body's transform, the wheel and its steering value
wheelWorldTransform(i, pos, q, steer) ==
  [wheel |-> i, pos |-> pos, quat |-> q, steering |-> steer]

\* a visual node that was never positioned (a fresh Object3D)
Untouched == [pos |-> "origin", quat |-> Identity]

\* A synchronizer that turns the visual node it finds instead of a copy of
\* the body's quaternion
chassisTurnedInPlace(pos, q) ==
  [pos |-> pos, quat |-> qmult(chassisVis.quat, HalfTurnY)]

\* The visual chassis after updateChassisFromPhysics
chassisFromPhysics(pos, q) == [pos |-> pos, quat |-> qmult(q, HalfTurnY)]

\* The visual wheels after updateWheelPositions: the loop runs over the
\* indices both lists have (line 739)
updateWheelPositions(ws, pos, q, steering) ==
  [i \in DOMAIN ws |->
     IF i \in WheelIdx THEN wheelWorldTransform(i, pos, q, steering[i])
                       ELSE ws[i]]


(***************************************************************************)
(* Inputs of the model.  Positions are opaque: the controller only copies  *)
(* them.                                                                   *)
(***************************************************************************)
\* the frame main.js passes before the game has started
NeutralFrame ==
  [steering |-> 0, throttle |-> 0, brake |-> 0, handbrake |-> FALSE,
   reverse |-> FALSE, boost |-> FALSE]

\* frames that exercise the engine / brake model.  Vehicle.update takes any
\* frame; those InputManager.getInputs builds have reverse = (brake > 0.9)
\* and are among these.
EngineFrames ==
  [steering : {0}, throttle : {100, 1000}, brake : {0, 1000},
   handbrake : {FALSE}, reverse : BOOLEAN, boost : BOOLEAN]

\* frames that exercise the steering controller
SteeringFrames ==
  [steering : {-3000, 99, 1000}, throttle : {1000}, brake : {0},
   handbrake : {FALSE}, reverse : {FALSE}, boost : {FALSE}]

\* elapsed times in ms.  GameState.update returns a value in [0, 0.1] s, and
\* 0 while the game is paused; 250 stands for a caller that does not clamp.
\* updateEngine does not read the elapsed time, and with 0 the steering angle
\* stays where it is.
EngineDts == {0}

SteeringDts == {0, 100, 250}

\* velocities the physics step may leave the body with, 1/180 m/s:
\* 50 is 1 km/h, 1500 is 30 km/h, 7000 is 140 km/h
EngineVelocities ==
  {Vec3(0, 0, z) : z \in {0, -50, -55, 1500, 1550, -7000, -7050}}

\* 5000 is 100 km/h, 10500 is 210 km/h
SteeringVelocities == {Vec3(0, 0, z) : z \in {0, -5000, -10500}}

EngineOrientations == {Identity, HalfTurnY}

SteeringOrientations == {Identity}

EnginePositions == {"moved"}

SteeringPositions == {"moved"}

(***************************************************************************)
(* State after `new Vehicle(scene, physics)` (constructor, lines 10-56).   *)
(***************************************************************************)
Init ==
  /\ vehicleSet = FALSE
  /\ chassisSet = FALSE
  /\ calls = 0
  /\ outcome = "none"
  /\ steeringAngle = 0
  /\ speed = 0
  /\ inputs = NeutralFrame
  /\ estimate = [fwd |-> FALSE, speed |-> 0]
  /\ wheelSteering = NoWheels
  /\ wheelEngine = NoWheels
  /\ wheelBrake = NoWheels
  /\ bodyVel = Zero3
  /\ bodyQuat = Identity
  /\ bodyPos = "spawn"
  /\ bodyForce = Zero3
  /\ bodyTorque = Zero3
  /\ impulse = Zero3
  /\ chassisVis = Untouched
  /\ wheelsVis = NoWheels
  /\ steeringWheelRot = 0
  /\ userData = [steeringInput |-> 0, velocity |-> 0, forwardDirection |-> Zero3]
  /\ handsSteering = 0
  /\ keys = {}
  /\ mousePositionX = 0
  /\ imSteeringWheel = 0
  /\ imThrottle = 0
  /\ imBrake = 0
  /\ imDt = 0
  /\ lastUpdateTime = 0
  /\ isPaused = FALSE
  /\ simulationSpeed = 10
  /\ delta = 0
  /\ lastCallTime = 0
  /\ pc = "idle"
  /\ gameStarted = FALSE
  /\ stepDt = 0
  /\ vehDt = 0
  /\ stepSaw = [steering |-> NoWheels, engine |-> NoWheels, brake |-> NoWheels,
                torque |-> Zero3, force |-> Zero3]
  /\ acosArg = 1000
  /\ tiltNaN = FALSE
  /\ tiltOver = FALSE
  /\ syncRuns = 0
  /\ camVehicle = FALSE
  /\ currentMode = "front-view"
  /\ isTransitioning = FALSE
  /\ transitionProgress = 0
  /\ transitionCallback = "null"
  /\ transitionRequests = 0
  /\ callbackRuns = 0
  /\ camTick = 0
  /\ camDt = 0
  /\ steerLo = 0
  /\ steerHi = 0
  /\ steerSpd = 0
  /\ targetLo = 0
  /\ targetHi = 0

\* the variables Vehicle.update and its callees may write
controllerVars ==
  <<steeringAngle, speed, inputs, estimate, wheelSteering, wheelEngine,
    wheelBrake, bodyQuat, bodyForce, bodyTorque, impulse, chassisVis,
    wheelsVis, steeringWheelRot, userData, handsSteering>>

(***************************************************************************)
(* Vehicle.createPhysicsChassis (lines 88-215): the chassis body at the    *)
(* spawn position, heading 0, and the raycast vehicle with its four wheels.*)
(***************************************************************************)
createPhysicsChassis ==
  /\ ~vehicleSet
  /\ vehicleSet' = TRUE
  /\ wheelSteering' = ZeroWheels
  /\ wheelEngine' = ZeroWheels
  /\ wheelBrake' = ZeroWheels
  /\ bodyVel' = Zero3
  /\ bodyQuat' = Identity
  /\ bodyPos' = "spawn"
  /\ bodyForce' = Zero3
  /\ bodyTorque' = Zero3
  /\ UNCHANGED <<chassisSet, calls, outcome, steeringAngle, speed, inputs,
                 estimate, impulse, chassisVis, wheelsVis, steeringWheelRot,
                 userData, handsSteering>>

(***************************************************************************)
(* Vehicle.loadModel (lines 220-428) and createSimpleCarModel (433-502):   *)
(* the loader's callback sets the visual chassis, four visual wheels and   *)
(* the steering wheel.  The glTF scene is turned by 180 degrees and        *)
(* lowered; the fallback mesh is left at the origin.                       *)
(***************************************************************************)
\* n fresh meshes pushed on the list ws (this.wheels.push, lines 366, 457)
pushWheels(ws, n) ==
  [i \in 0 .. (Len(ws) + n - 1) |-> IF i < Len(ws) THEN ws[i + 1] ELSE Untouched]

\* A loader that takes the wheel meshes of the model however many it finds
wheelsOfModelAsFound(found) == pushWheels(<<>>, found)

\* lines 334-368: clones of the model's wheel meshes when it has exactly
\* four, sorted front-left, front-right, back-left, back-right by
\* sortWheels (lines 811-838); four procedural wheels otherwise
wheelsOfModel(found) ==
  IF found = 4 THEN pushWheels(<<>>, found) ELSE pushWheels(<<>>, 4)

\* loadModel for one of the ways it ends: the glTF file is "loaded", no
\* path answers ("noValidPath", lines 264-269), the loader reports an error
\* ("loaderError", lines 421-425); found is the number of nodes of the
\* loaded scene whose name matches a wheel pattern
loadModelPath(path, found) ==
  /\ vehicleSet
  /\ ~chassisSet
  /\ chassisSet' = TRUE
  /\ chassisVis' = IF path = "loaded" THEN [pos |-> "lowered", quat |-> HalfTurnY]
                                      ELSE Untouched
  /\ wheelsVis' = IF path = "loaded" THEN wheelsOfModel(found)
                                     ELSE pushWheels(<<>>, 4)
  /\ steeringWheelRot' = 0
  /\ UNCHANGED <<vehicleSet, calls, outcome, steeringAngle, speed, inputs,
                 estimate, wheelSteering, wheelEngine, wheelBrake, bodyVel,
                 bodyQuat, bodyPos, bodyForce, bodyTorque, impulse, userData,
                 handsSteering>>

\* the model with its four wheel meshes, or the fallback car
loadModel(gltf) == loadModelPath(IF gltf THEN "loaded" ELSE "loaderError", 4)

(***************************************************************************)
(* Physics.update (Physics.js lines 114-117): world.step integrates the    *)
(* body, which the model takes as any velocity, orientation and position   *)
(* of the given sets, and clears the accumulated force and torque.         *)
(***************************************************************************)
physicsStep(v, q, p) ==
  /\ vehicleSet
  /\ bodyVel' = v
  /\ bodyQuat' = q
  /\ bodyPos' = p
  /\ bodyForce' = Zero3
  /\ bodyTorque' = Zero3
  /\ UNCHANGED <<vehicleSet, chassisSet, calls, outcome, steeringAngle, speed,
                 inputs, estimate, wheelSteering, wheelEngine, wheelBrake,
                 impulse, chassisVis, wheelsVis, steeringWheelRot, userData,
                 handsSteering>>


(***************************************************************************)
(* Vehicle.update (lines 509-552) with its callees updateSteering,         *)
(* updateEngine, updateWheelPositions, updateChassisFromPhysics and        *)
(* Hands.update.  The speed log of updateEngine (lines 638-646) only       *)
(* prints and is left out.                                                 *)
(***************************************************************************)
\* A mutated guard that forgets the visual chassis
updateReturnsEarlyVehicleOnly == ~vehicleSet

\* if (!this.vehicle || !this.chassis) return;
updateReturnsEarly == ~vehicleSet \/ ~chassisSet

\* target.copy(source) of cannon-es: the new value of target
quaternionCopy(target, source) == source

updateCall(dt, in) ==
  LET newAngle == nextSteeringAngle(steeringAngle, in.steering, speed, dt)
      corrected == correctedInput(in.steering, speed)
      fwd == isMovingForward(bodyVel, bodyQuat)
      spd == actualSpeed(bodyVel, bodyQuat)
      f == engineForces(in.throttle, in.brake, in.reverse, in.boost, fwd, spd)
      rotation == Identity
      newQuat == quaternionCopy(bodyQuat, rotation)
      newVis == chassisFromPhysics(bodyPos, newQuat)
      newSpeed == storedSpeed(bodyVel, newQuat)
  IN
  /\ calls' = calls + 1
  /\ UNCHANGED <<vehicleSet, chassisSet, bodyVel, bodyPos>>
  /\ IF updateReturnsEarly
       THEN /\ outcome' = "skipped"
            /\ UNCHANGED controllerVars
       ELSE IF ~vehicleSet
       THEN \* updateSteering: this.vehicle.setSteeringValue throws
            /\ outcome' = "threw"
            /\ steeringAngle' = newAngle
            /\ userData' = IF chassisSet
                             THEN [userData EXCEPT !.steeringInput = corrected]
                             ELSE userData
            /\ UNCHANGED <<speed, inputs, estimate, wheelSteering, wheelEngine,
                           wheelBrake, bodyQuat, bodyForce, bodyTorque, impulse,
                           chassisVis, wheelsVis, steeringWheelRot,
                           handsSteering>>
       ELSE \* updateSteering and updateEngine
            /\ steeringAngle' = newAngle
            /\ wheelSteering' = steeringValues(newAngle)
            /\ inputs' = in
            /\ estimate' = [fwd |-> fwd, speed |-> spd]
            /\ wheelEngine' = engineForceValues(f.engine)
            /\ wheelBrake' = brakeValues(wheelBrake, f.brake)
            /\ impulse' = Zero3
            /\ bodyForce' = downforce(bodyForce, speed, bodyQuat)
            /\ bodyQuat' = newQuat
            /\ bodyTorque' = correctedTorque(bodyTorque, bodyQuat)
            /\ IF chassisSet
                 THEN /\ steeringWheelRot' = steeringWheelRotation(newAngle)
                      /\ wheelsVis' =
                           updateWheelPositions(wheelsVis, bodyPos, newQuat,
                                                steeringValues(newAngle))
                      /\ chassisVis' = newVis
                      /\ handsSteering' = in.steering
                      /\ speed' = newSpeed
                      /\ userData' =
                           [steeringInput |-> corrected,
                            velocity |-> Quot(newSpeed, 36),
                            forwardDirection |-> vmult(newVis.quat, Vec3(0, 0, 1))]
                      /\ outcome' = "done"
                 ELSE \* updateChassisFromPhysics: this.chassis.position throws
                      /\ outcome' = "threw"
                      /\ UNCHANGED <<steeringWheelRot, wheelsVis, chassisVis,
                                     handsSteering, speed, userData>>

\* Vehicle.update, at most MaxTicks calls
update(dt, in) == calls < MaxTicks /\ updateCall(dt, in)

(***************************************************************************)
(* The current Vehicle driven with engine frames (Spec) and with steering  *)
(* frames (SpecSteering).                                                  *)
(***************************************************************************)
Next ==
  \/ createPhysicsChassis /\ UNCHANGED outsideVehicle
  \/ \E gltf \in BOOLEAN : loadModel(gltf) /\ UNCHANGED outsideVehicle
  \/ \E v \in EngineVelocities, q \in EngineOrientations, p \in EnginePositions :
       physicsStep(v, q, p) /\ UNCHANGED outsideVehicle
  \/ \E in \in EngineFrames, dt \in EngineDts :
       update(dt, in) /\ UNCHANGED outsideVehicle

Spec == Init /\ [][Next]_vars

NextSteering ==
  \/ createPhysicsChassis /\ UNCHANGED outsideVehicle
  \/ \E gltf \in BOOLEAN : loadModel(gltf) /\ UNCHANGED outsideVehicle
  \/ \E v \in SteeringVelocities, q \in SteeringOrientations, p \in SteeringPositions :
       physicsStep(v, q, p) /\ UNCHANGED outsideVehicle
  \/ \E in \in SteeringFrames, dt \in SteeringDts :
       update(dt, in) /\ UNCHANGED outsideVehicle

SpecSteering == Init /\ [][NextSteering]_vars


(***************************************************************************)
(* The older Vehicle (src/src/vehicle/Vehicle.js).  Its constructor,       *)
(* createPhysicsChassis and loadModel leave the same state as the current  *)
(* ones; update differs in the steering controller, the engine model (all  *)
(* wheel drive, throttle smoothing, a start impulse) and the transform     *)
(* copy.                                                                   *)
(***************************************************************************)
\* this.maxForce, newtons
maxForceLegacy == 3000

\* this.mass, kg
massLegacy == 1500

\* this.steeringAngle after updateSteering (lines 452-463): steeringSpeed 3.0,
\* no clamp, no cap of the step
nextSteeringAngleLegacy(angle, s, dt) ==
  LET target == Quot(-s * maxSteeringAngle, 1000)
  IN IF Abs(target - angle) > 1000
       THEN angle + Quot((target - angle) * 3 * dt, 1000)
       ELSE target

\* setSteeringValue on the front pair only (lines 466-467)
steeringValuesLegacy(old, angle) ==
  [i \in WheelIdx |-> IF i = FRONT_LEFT \/ i = FRONT_RIGHT THEN angle ELSE old[i]]

\* Math.min(throttle * Math.min(1, this.speed / 3 + 0.5), 1), thousandths
smoothThrottle(throttle, spd) ==
  Min(Quot(throttle * Min(1000, Quot(spd * 1000, 3 * KMH) + 500), 1000), 1000)

\* engineForce and brakeForce (lines 513-543), mN
engineForcesLegacy(throttle, brake, reverse, boost, fwd, spd, stored) ==
  LET smooth == smoothThrottle(throttle, stored)
  IN IF reverse
       THEN IF fwd /\ spd > 5 * KMH
              THEN [engine |-> 0, brake |-> Quot(maxBrakeForce * 1000 * 15, 10)]
              ELSE [engine |-> IF ~fwd /\ spd > 30 * KMH
                                 THEN 0
                                 ELSE -(smooth * maxForceLegacy * 5),
                    brake |-> 0]
       ELSE [engine |-> IF boost
                          THEN Quot(smooth * maxForceLegacy * 15, 10)
                          ELSE smooth * maxForceLegacy,
             brake |-> Quot(brake * maxBrakeForce * 15, 10)]

\* The four applyEngineForce calls (lines 546-553): the force to the rear
\* pair, 0.4 of it to the front pair
engineForceValuesLegacy(force) ==
  [i \in WheelIdx |-> IF i = BACK_LEFT \/ i = BACK_RIGHT
                        THEN force
                        ELSE Quot(force * 4, 10)]

\* The start impulse (lines 559-567), local, in N s: applied in every call in
\* which throttle > 0.1 or reverse is requested and the speed is below 2 km/h
startImpulse(throttle, reverse, spd) ==
  IF (throttle > 100 \/ reverse) /\ spd < 2 * KMH
    THEN Vec3(0, 0, IF reverse THEN 1000 ELSE -300)
    ELSE Zero3

\* chassisBody.velocity after applyImpulse(worldImpulse, position): the
\* impulse divided by the mass, 1/180 m/s.  (The angular velocity the
\* off-centre point adds is not a variable of the model.)
velocityAfterImpulse(v, q, imp) ==
  LET world == vmult(q, imp)
  IN vadd(v, Vec3(Quot(world[1] * MPS, massLegacy),
                  Quot(world[2] * MPS, massLegacy),
                  Quot(world[3] * MPS, massLegacy)))

\* chassisBody.force after the downforce (lines 570-573)
downforceLegacy(force, spd, q) ==
  IF spd > 10 * KMH THEN vadd(force, vmult(q, Vec3(0, -spd * 10, 0))) ELSE force

\* chassisBody.torque after the anti-roll correction (lines 576-599): the
\* same overwritten quaternion, threshold Math.PI / 4, stiffness 5000
correctedTorqueLegacy(torque, q) ==
  LET vehicleUp == vmult(tiltRotation(q), Vec3(0, 1, 0))
      axis == normalize(Cross(vehicleUp, Vec3(0, 1, 0)))
  IN IF ~acosIsNaN(upDot(q)) /\ tiltAngle(q) > 785398
       THEN vadd(torque, scale(axis, 5000 * (tiltAngle(q) - 785398)))
       ELSE torque

\* Vehicle.update of the older Vehicle (lines 402-445)
updateLegacy(dt, in) ==
  LET newAngle == nextSteeringAngleLegacy(steeringAngle, in.steering, dt)
      fwd == isMovingForward(bodyVel, bodyQuat)
      spd == actualSpeed(bodyVel, bodyQuat)
      f == engineForcesLegacy(in.throttle, in.brake, in.reverse, in.boost,
                              fwd, spd, speed)
      imp == startImpulse(in.throttle, in.reverse, spd)
      newVel == velocityAfterImpulse(bodyVel, bodyQuat, imp)
      newQuat == quaternionCopy(bodyQuat, Identity)
      newSpeed == storedSpeed(newVel, newQuat)
  IN
  /\ calls < MaxTicks
  /\ calls' = calls + 1
  /\ UNCHANGED <<vehicleSet, chassisSet, bodyPos>>
  /\ IF updateReturnsEarly
       THEN /\ outcome' = "skipped"
            /\ UNCHANGED controllerVars
            /\ UNCHANGED bodyVel
       ELSE /\ outcome' = "done"
            /\ steeringAngle' = newAngle
            /\ wheelSteering' = steeringValuesLegacy(wheelSteering, newAngle)
            /\ steeringWheelRot' = -newAngle * 2
            /\ inputs' = in
            /\ estimate' = [fwd |-> fwd, speed |-> spd]
            /\ wheelEngine' = engineForceValuesLegacy(f.engine)
            /\ wheelBrake' = brakeValues(wheelBrake, f.brake)
            /\ impulse' = imp
            /\ bodyVel' = newVel
            /\ bodyForce' = downforceLegacy(bodyForce, speed, bodyQuat)
            /\ bodyQuat' = newQuat
            /\ bodyTorque' = correctedTorqueLegacy(bodyTorque, bodyQuat)
            /\ wheelsVis' =
                 [i \in WheelIdx |->
                    wheelWorldTransform(i, bodyPos, newQuat,
                                        steeringValuesLegacy(wheelSteering, newAngle)[i])]
            /\ chassisVis' = [pos |-> bodyPos, quat |-> newQuat]
            /\ handsSteering' = in.steering
            /\ speed' = newSpeed
            /\ userData' = [userData EXCEPT !.velocity = Quot(newSpeed, 36)]

\* frames, elapsed times and body states for the older Vehicle; 55 is
\* 1.1 km/h, 150 is 3 km/h
LegacyFrames ==
  [steering : {0}, throttle : {0, 1000}, brake : {0, 1000},
   handbrake : {FALSE}, reverse : BOOLEAN, boost : BOOLEAN]

LegacyVelocities == {Vec3(0, 0, z) : z \in {0, -55, -150, 1550}}

NextLegacy ==
  \/ createPhysicsChassis /\ UNCHANGED outsideVehicle
  \/ \E gltf \in BOOLEAN : loadModel(gltf) /\ UNCHANGED outsideVehicle
  \/ \E v \in LegacyVelocities, q \in EngineOrientations, p \in EnginePositions :
       physicsStep(v, q, p) /\ UNCHANGED outsideVehicle
  \/ \E in \in LegacyFrames, dt \in EngineDts :
       updateLegacy(dt, in) /\ UNCHANGED outsideVehicle

SpecLegacy == Init /\ [][NextLegacy]_vars

(***************************************************************************)
(* The current Vehicle with body states that are yawed, rolled and         *)
(* inverted, and a body that slides sideways.                              *)
(***************************************************************************)
TiltFrames ==
  [steering : {0}, throttle : {0, 1000}, brake : {0}, handbrake : {FALSE},
   reverse : BOOLEAN, boost : {FALSE}]

TiltVelocities == {Zero3, Vec3(0, 0, -1000), Vec3(1000, 0, 0)}

TiltOrientations ==
  {Identity, HalfTurnY, QuarterTurnY, SmallRollZ, QuarterTurnZ, HalfTurnZ}

NextTilt ==
  \/ createPhysicsChassis /\ UNCHANGED outsideVehicle
  \/ \E gltf \in BOOLEAN : loadModel(gltf) /\ UNCHANGED outsideVehicle
  \/ \E v \in TiltVelocities, q \in TiltOrientations :
       physicsStep(v, q, "moved") /\ UNCHANGED outsideVehicle
  \/ \E in \in TiltFrames :
       update(0, in) /\ UNCHANGED outsideVehicle

SpecTilt == Init /\ [][NextTilt]_vars

(***************************************************************************)
(* The tilt computation of updateEngine (lines 717-722) as a function of   *)
(* the dot product it gives to Math.acos, in 1/1000.  In Vehicle.update    *)
(* the dot product is that of the fresh identity quaternion; here it is    *)
(* any value that rounding or a quaternion that is not of unit length can  *)
(* give.                                                                   *)
(***************************************************************************)
\* Math.acos(d) is NaN outside [-1, 1]; the code passes d as it is
tiltAngleIsNaN(d) == d < -1000 \/ d > 1000

\* tiltAngle > Math.PI / 6, false for NaN; cos(pi/6) is 0.8660254
tiltAngleOverThreshold(d) == ~tiltAngleIsNaN(d) /\ d <= 866

\* lines 719 and 722 for one dot product
tiltOfDot(d) ==
  /\ acosArg' = d
  /\ tiltNaN' = tiltAngleIsNaN(d)
  /\ tiltOver' = tiltAngleOverThreshold(d)
  /\ UNCHANGED <<vehicleVars, inputVars, gameVars, loopVars, syncVars, cameraVars,
                 targetVars>>

\* dot products from -1.1 to 1.1 in steps of 0.02
DotProducts == {20 * k : k \in -55 .. 55}

NextDot == \E d \in DotProducts : tiltOfDot(d)

SpecDot == Init /\ [][NextDot]_vars

(***************************************************************************)
(* InputManager (src/src/controls/InputManager.js).  Steering, throttle    *)
(* and brake are in 1/1000, deltaTime in ms, so a rate of r per second     *)
(* changes a value by r * deltaTime units.                                 *)
(***************************************************************************)
\* e.key.toLowerCase() on the key names of the model
toLowerCase(k) ==
  CASE k = "W" -> "w"
    [] k = "S" -> "s"
    [] k = "A" -> "a"
    [] k = "D" -> "d"
    [] k = "Shift" -> "shift"
    [] k = "ArrowUp" -> "arrowup"
    [] k = "ArrowDown" -> "arrowdown"
    [] k = "ArrowLeft" -> "arrowleft"
    [] k = "ArrowRight" -> "arrowright"
    [] OTHER -> k

\* the keydown listener (lines 28-32)
keydown(k) ==
  /\ keys' = keys \cup {toLowerCase(k)}
  /\ UNCHANGED <<mousePositionX, imSteeringWheel, imThrottle, imBrake, imDt>>

\* the keyup listener (lines 34-36)
keyup(k) ==
  /\ keys' = keys \ {toLowerCase(k)}
  /\ UNCHANGED <<mousePositionX, imSteeringWheel, imThrottle, imBrake, imDt>>

\* the mousemove listener (lines 56-59); x is (clientX / innerWidth) * 2 - 1
mousemove(x) ==
  /\ mousePositionX' = x
  /\ UNCHANGED <<keys, imSteeringWheel, imThrottle, imBrake, imDt>>

\* deltaTime = Math.min(deltaTime, 0.1)
clampDeltaTime(dt) == Min(dt, 100)

\* targetSteering (lines 71-83); steeringSensitivity is 1.0
targetSteering(ks, mx) ==
  IF "a" \in ks \/ "arrowleft" \in ks THEN -1000
  ELSE IF "d" \in ks \/ "arrowright" \in ks THEN 1000
  ELSE Max(-1000, Min(1000, mx))

\* A steering update in which the return to centre is tested first
nextSteeringWheelReturnFirst(sw, target, dt) ==
  IF target = 0 /\ sw # 0
    THEN IF Abs(sw) < 100 THEN 0
         ELSE IF sw > 0 THEN sw - 1 * dt
         ELSE sw + 1 * dt
  ELSE IF target > sw THEN Min(target, sw + 2 * dt)
  ELSE IF target < sw THEN Max(target, sw - 2 * dt)
  ELSE sw

\* this.steeringWheel after the smoothing (lines 85-101); steeringSpeed is
\* 2.0, steeringReturn 1.0.  The second branch is taken only when
\* targetSteering equals this.steeringWheel.
nextSteeringWheel(sw, target, dt) ==
  IF target # sw
    THEN IF target > sw
           THEN Min(target, sw + 2 * dt)
           ELSE Max(target, sw - 2 * dt)
  ELSE IF target = 0 /\ sw # 0
    THEN IF Abs(sw) < 100 THEN 0
         ELSE IF sw > 0 THEN sw - 1 * dt
         ELSE sw + 1 * dt
  ELSE sw

\* A throttle ramp without the upper clamp
nextThrottleUnclamped(t, ks, dt) ==
  IF "w" \in ks \/ "arrowup" \in ks THEN t + 2 * dt ELSE Max(0, t - 3 * dt)

\* this.throttle (lines 104-108)
nextThrottle(t, ks, dt) ==
  IF "w" \in ks \/ "arrowup" \in ks
    THEN Min(1000, t + 2 * dt)
    ELSE Max(0, t - 3 * dt)

\* A brake ramp that releases at the rate it is pressed
nextBrakeSlowRelease(b, ks, dt) ==
  IF "s" \in ks \/ "arrowdown" \in ks
    THEN Min(1000, b + 3 * dt)
    ELSE Max(0, b - 3 * dt)

\* this.brake (lines 111-115)
nextBrake(b, ks, dt) ==
  IF "s" \in ks \/ "arrowdown" \in ks
    THEN Min(1000, b + 3 * dt)
    ELSE Max(0, b - 5 * dt)

\* InputManager.update (lines 66-116)
inputUpdate(dt) ==
  LET d == clampDeltaTime(dt)
  IN /\ imDt' = d
     /\ imSteeringWheel' =
          nextSteeringWheel(imSteeringWheel, targetSteering(keys, mousePositionX), d)
     /\ imThrottle' = nextThrottle(imThrottle, keys, d)
     /\ imBrake' = nextBrake(imBrake, keys, d)
     /\ UNCHANGED <<keys, mousePositionX>>

\* A reverse flag with a lower threshold
reverseFlagHalfBrake(b) == b > 500

\* reverse: this.brake > 0.9
reverseFlag(b) == b > 900

\* InputManager.getInputs (lines 122-131)
getInputs ==
  [steering |-> imSteeringWheel, throttle |-> imThrottle, brake |-> imBrake,
   handbrake |-> " " \in keys, reverse |-> reverseFlag(imBrake),
   boost |-> "shift" \in keys]

\* key names, pointer positions and elapsed times for the pedals
PedalKeys == {"W", "s", "Shift"}

PedalDts == {0, 50, 100, 250}

\* key names, pointer positions (1/1000) and elapsed times for the steering
WheelKeys == {"a", "D"}

WheelMouse == {-1500, 0, 250}

WheelDts == {0, 30, 100}

NextPedals ==
  \/ \E k \in PedalKeys : keydown(k) /\ UNCHANGED <<vehicleVars, gameVars, loopVars, tiltVars, syncVars, cameraVars, targetVars>>
  \/ \E k \in PedalKeys : keyup(k) /\ UNCHANGED <<vehicleVars, gameVars, loopVars, tiltVars, syncVars, cameraVars, targetVars>>
  \/ \E dt \in PedalDts :
       inputUpdate(dt) /\ UNCHANGED <<vehicleVars, gameVars, loopVars, tiltVars, syncVars, cameraVars, targetVars>>

SpecPedals == Init /\ [][NextPedals]_vars

NextWheel ==
  \/ \E k \in WheelKeys : keydown(k) /\ UNCHANGED <<vehicleVars, gameVars, loopVars, tiltVars, syncVars, cameraVars, targetVars>>
  \/ \E k \in WheelKeys : keyup(k) /\ UNCHANGED <<vehicleVars, gameVars, loopVars, tiltVars, syncVars, cameraVars, targetVars>>
  \/ \E x \in WheelMouse :
       mousemove(x) /\ UNCHANGED <<vehicleVars, gameVars, loopVars, tiltVars, syncVars, cameraVars, targetVars>>
  \/ \E dt \in WheelDts :
       inputUpdate(dt) /\ UNCHANGED <<vehicleVars, gameVars, loopVars, tiltVars, syncVars, cameraVars, targetVars>>

SpecWheel == Init /\ [][NextWheel]_vars

\* key names, pointer positions and elapsed times for steering and pedals
\* together
InputKeys == {"a", "W", "s"}

InputMouse == {-1500, 250}

InputDts == {0, 100, 250}

NextInput ==
  \/ \E k \in InputKeys : keydown(k) /\ UNCHANGED <<vehicleVars, gameVars, loopVars, tiltVars, syncVars, cameraVars, targetVars>>
  \/ \E k \in InputKeys : keyup(k) /\ UNCHANGED <<vehicleVars, gameVars, loopVars, tiltVars, syncVars, cameraVars, targetVars>>
  \/ \E x \in InputMouse :
       mousemove(x) /\ UNCHANGED <<vehicleVars, gameVars, loopVars, tiltVars, syncVars, cameraVars, targetVars>>
  \/ \E dt \in InputDts :
       inputUpdate(dt) /\ UNCHANGED <<vehicleVars, gameVars, loopVars, tiltVars, syncVars, cameraVars, targetVars>>

SpecInput == Init /\ [][NextInput]_vars

\* the requestAnimationFrame loop keeps calling update, and real time passes
\* between two frames
SpecPedalsLive ==
  /\ Init
  /\ [][NextPedals]_vars
  /\ WF_vars(\E dt \in PedalDts \ {0} :
               inputUpdate(dt) /\ UNCHANGED <<vehicleVars, gameVars, loopVars, tiltVars, syncVars, cameraVars, targetVars>>)

(***************************************************************************)
(* GameState (src/unnamed/part_000).  Times are in ms, the simulation      *)
(* speed in 1/10; the clock starts at 0 when the GameState is built.       *)
(***************************************************************************)
\* A delta that is not clamped
returnedDeltaUnclamped(t, last, paused, spd) ==
  IF paused THEN 0 ELSE Quot((t - last) * spd, 10)

\* Math.min(adjustedDelta, 0.1) with adjustedDelta of lines 19-24
returnedDelta(t, last, paused, spd) ==
  Min(IF paused THEN 0 ELSE Quot((t - last) * spd, 10), 100)

\* A GameState that stops its clock reference while paused
nextLastUpdateTimeFrozen(t, last, paused) == IF paused THEN last ELSE t

\* this.lastUpdateTime = currentTime (line 20)
nextLastUpdateTime(t, last, paused) == t

\* GameState.update (lines 16-27); t is what performance.now() returns
gameStateUpdateAt(t) ==
  /\ t >= lastCallTime
  /\ delta' = returnedDelta(t, lastUpdateTime, isPaused, simulationSpeed)
  /\ lastUpdateTime' = nextLastUpdateTime(t, lastUpdateTime, isPaused)
  /\ lastCallTime' = t
  /\ UNCHANGED <<isPaused, simulationSpeed>>

\* GameState.update with the clock reading at most MaxClock
gameStateUpdate(t) == t <= MaxClock /\ gameStateUpdateAt(t)

\* GameState.togglePause (lines 32-35)
togglePause ==
  /\ isPaused' = ~isPaused
  /\ UNCHANGED <<lastUpdateTime, simulationSpeed, delta, lastCallTime>>

\* GameState.setSimulationSpeed (lines 41-44)
setSimulationSpeed(spd) ==
  /\ simulationSpeed' = Max(1, Min(spd, 20))
  /\ UNCHANGED <<lastUpdateTime, isPaused, delta, lastCallTime>>

(***************************************************************************)
(* DrivingSimulator.animate (src/unnamed/part_002 lines 257-304), started  *)
(* once Vehicle.init has resolved.  JavaScript runs a callback to its end, *)
(* so the four calls of one frame follow each other with no event between  *)
(* them: pc names the call that was made last.  The snow, HUD and render   *)
(* calls read the vehicle and write none of the model's state; the camera  *)
(* call writes it only while a transition runs, and is a step of its own   *)
(* in SpecPlay.                                                            *)
(***************************************************************************)
\* const delta = this.gameState.update()
animateGameState(t) ==
  /\ pc = "idle"
  /\ vehicleSet /\ chassisSet
  /\ calls < MaxFrames
  /\ gameStateUpdate(t)
  /\ pc' = "gameState"
  /\ UNCHANGED <<vehicleVars, inputVars, gameStarted, stepDt, vehDt, stepSaw,
                 tiltVars, syncVars, cameraVars, targetVars>>

\* this.inputManager.update(delta)
animateInput ==
  /\ pc = "gameState"
  /\ inputUpdate(delta)
  /\ pc' = "input"
  /\ UNCHANGED <<vehicleVars, gameVars, gameStarted, stepDt, vehDt, stepSaw,
                 tiltVars, syncVars, cameraVars, targetVars>>

\* this.physics.update(delta): the step works with the wheel values, force
\* and torque the body holds when it is called
animatePhysics(v, q, p) ==
  /\ pc = "input"
  /\ physicsStep(v, q, p)
  /\ stepDt' = delta
  /\ stepSaw' = [steering |-> wheelSteering, engine |-> wheelEngine,
                 brake |-> wheelBrake, torque |-> bodyTorque,
                 force |-> bodyForce]
  /\ pc' = "physics"
  /\ UNCHANGED <<inputVars, gameVars, gameStarted, vehDt, tiltVars, syncVars, cameraVars, targetVars>>

\* A loop that hands the driver's frame to the vehicle from the first frame
frameForVehicleUngated == getInputs

\* the frame handed to Vehicle.update (lines 272-285)
frameForVehicle == IF gameStarted THEN getInputs ELSE NeutralFrame

\* this.vehicle.update(delta, ...)
animateVehicleThen(next) ==
  /\ pc = "physics"
  /\ updateCall(delta, frameForVehicle)
  /\ vehDt' = delta
  /\ pc' = next
  /\ UNCHANGED <<inputVars, gameVars, gameStarted, stepDt, stepSaw, tiltVars, syncVars, cameraVars, targetVars>>

\* the vehicle update as the last call of the frame that writes the
\* model's state: no camera transition is pending
animateVehicle == animateVehicleThen("idle")

\* the callback of transitionToGameView (lines 109-112)
startGame ==
  /\ pc = "idle"
  /\ vehicleSet /\ chassisSet
  /\ ~gameStarted
  /\ gameStarted' = TRUE
  /\ UNCHANGED <<vehicleVars, inputVars, gameVars, pc, stepDt, vehDt, stepSaw,
                 tiltVars, syncVars, cameraVars, targetVars>>

\* an event listener or a GameState call between two frames
betweenFrames(A) ==
  /\ pc = "idle"
  /\ A
  /\ UNCHANGED <<loopVars, tiltVars, syncVars, cameraVars, targetVars>>

\* the loop while driving: a frame every 100 ms, the brake key
DriveKeys == {"s"}

DriveClock == {100, 200, 300, 400}

DriveVelocities == {Vec3(0, 0, z) : z \in {0, -1000}}

NextDrive ==
  \/ createPhysicsChassis /\ UNCHANGED outsideVehicle
  \/ loadModel(TRUE) /\ UNCHANGED outsideVehicle
  \/ startGame
  \/ \E k \in DriveKeys :
       betweenFrames(keydown(k) /\ UNCHANGED <<vehicleVars, gameVars>>)
  \/ \E k \in DriveKeys :
       betweenFrames(keyup(k) /\ UNCHANGED <<vehicleVars, gameVars>>)
  \/ \E t \in DriveClock : animateGameState(t)
  \/ animateInput
  \/ \E v \in DriveVelocities : animatePhysics(v, Identity, "moved")
  \/ animateVehicle

SpecDrive == Init /\ [][NextDrive]_vars

\* the loop with the clock, the pause flag and the simulation speed free
ClockReadings == {0, 16, 100, 116, 400}

Speeds == {0, 5, 20, 30}

NextClock ==
  \/ createPhysicsChassis /\ UNCHANGED outsideVehicle
  \/ loadModel(TRUE) /\ UNCHANGED outsideVehicle
  \/ betweenFrames(togglePause /\ UNCHANGED <<vehicleVars, inputVars>>)
  \/ \E spd \in Speeds :
       betweenFrames(setSimulationSpeed(spd) /\ UNCHANGED <<vehicleVars, inputVars>>)
  \/ \E t \in ClockReadings : animateGameState(t)
  \/ animateInput
  \/ animatePhysics(Zero3, Identity, "moved")
  \/ animateVehicle

SpecClock == Init /\ [][NextClock]_vars

(***************************************************************************)
(* Properties of the steering controller, checked under SpecSteering.      *)
(***************************************************************************)
\* C1: whatever steering inputs, elapsed times and speeds the update calls
\* saw, the stored steering angle stays within +-maxSteeringAngle.
C1_SteeringAngleBounded == Abs(steeringAngle) <= maxSteeringAngle

\* an update has driven the angle to full lock
C1_FullLock == outcome = "done" /\ Abs(steeringAngle) = maxSteeringAngle

\* C2: the rear wheels' steering value is 0 and both front wheels carry the
\* current steering angle, after every update and for every input history.
C2_RearWheelsStraight ==
  vehicleSet =>
    /\ wheelSteering[BACK_LEFT] = 0
    /\ wheelSteering[BACK_RIGHT] = 0
    /\ wheelSteering[FRONT_LEFT] = steeringAngle
    /\ wheelSteering[FRONT_RIGHT] = steeringAngle

\* a second update has left the front pair steered and the rear pair straight
C2_SteeredFrontPair ==
  /\ outcome = "done"
  /\ calls = 2
  /\ steeringAngle # 0
  /\ wheelSteering[FRONT_LEFT] = steeringAngle
  /\ wheelSteering[BACK_LEFT] = 0

(***************************************************************************)
(* Properties of the engine / brake model, checked under Spec.  After a    *)
(* processed update, inputs is the frame of that tick and estimate the     *)
(* direction and speed its updateEngine computed.                          *)
(***************************************************************************)
AllWheels(w, x) == \A i \in WheelIdx : w[i] = x

ForwardCut ==
  /\ outcome = "done"
  /\ ~inputs.reverse
  /\ estimate.fwd
  /\ estimate.speed > MAX_FORWARD_SPEED * KMH

\* C3: a forward tick above the forward cap gets engine force 0 on every
\* wheel, whatever throttle and boost, and the brake brake x maxBrakeForce; a
\* forward tick at or below the cap that follows a cut tick is throttle-driven
\* again.
C3_CutAboveCap ==
  /\ [](ForwardCut =>
          /\ AllWheels(wheelEngine, 0)
          /\ AllWheels(wheelBrake, inputs.brake * maxBrakeForce))
  /\ [][(/\ ForwardCut
         /\ calls' = calls + 1
         /\ ~inputs'.reverse
         /\ estimate'.fwd
         /\ estimate'.speed <= MAX_FORWARD_SPEED * KMH)
          => wheelEngine'[FRONT_LEFT] >= inputs'.throttle * maxForce]_vars

\* a tick above the cap with full throttle and boost held
C3_CutTick ==
  /\ ForwardCut
  /\ inputs.throttle = 1000
  /\ inputs.boost
  /\ wheelEngine[FRONT_LEFT] = 0

\* C4: reverse requested while moving forward faster than 1 km/h: engine
\* force 0 and 1.5 x maxBrakeForce on all four wheels, whatever throttle,
\* brake and boost.
C4_ReverseBrakes ==
  (outcome = "done" /\ inputs.reverse /\ estimate.fwd /\ estimate.speed > 1 * KMH)
    => /\ AllWheels(wheelEngine, 0)
       /\ \A i \in WheelIdx : wheelBrake[i] * 10 = maxBrakeForce * 1000 * 15

\* reverse requested at 1.1 km/h forward with throttle, brake and boost held
C4_ReverseWhileForward ==
  /\ outcome = "done"
  /\ inputs.reverse /\ inputs.boost
  /\ inputs.throttle = 1000 /\ inputs.brake = 1000
  /\ estimate.fwd /\ estimate.speed > 1 * KMH /\ estimate.speed < 2 * KMH
  /\ wheelBrake[BACK_RIGHT] = 750000

\* C5: reverse requested while not moving forward faster than 1 km/h and not
\* above the reverse cap: the engine force is -0.5 x maxForce, whatever
\* throttle and boost, and the brake force is 0; a body at rest is such a case.
C5_ReverseForce ==
  (/\ outcome = "done" /\ inputs.reverse
   /\ ~(estimate.fwd /\ estimate.speed > 1 * KMH)
   /\ ~(~estimate.fwd /\ estimate.speed > MAX_REVERSE_SPEED * KMH))
    => /\ wheelEngine[FRONT_LEFT] * 10 = -(maxForce * 1000 * 5)
       /\ -wheelEngine[FRONT_LEFT] < maxForce * 1000
       /\ AllWheels(wheelBrake, 0)

\* reverse requested at rest
C5_ReverseFromRest ==
  /\ outcome = "done"
  /\ inputs.reverse
  /\ estimate.speed = 0 /\ ~estimate.fwd
  /\ wheelEngine[FRONT_LEFT] = -2000000

\* C6: reverse requested while moving backward faster than the reverse cap:
\* engine force 0 and brake force 0 on every wheel.
C6_ReverseCap ==
  (/\ outcome = "done" /\ inputs.reverse
   /\ ~estimate.fwd /\ estimate.speed > MAX_REVERSE_SPEED * KMH)
    => AllWheels(wheelEngine, 0) /\ AllWheels(wheelBrake, 0)

\* reverse requested at 31 km/h backward
C6_ReverseAboveCap ==
  /\ outcome = "done"
  /\ inputs.reverse
  /\ ~estimate.fwd /\ estimate.speed = 31 * KMH
  /\ AllWheels(wheelEngine, 0)

ForwardTick ==
  /\ outcome = "done"
  /\ ~inputs.reverse
  /\ estimate.speed <= MAX_FORWARD_SPEED * KMH

ReverseTickUnboosted ==
  (outcome = "done" /\ inputs.reverse)
    => wheelEngine[FRONT_LEFT] \in {0, -(maxForce * 500)}

\* C7 as stated: in a forward tick below the cap the engine force is
\* throttle x maxForce, times 1.3 whenever boost is held, for every throttle.
C7_BoostAnyThrottle ==
  /\ ForwardTick =>
       /\ wheelEngine[FRONT_LEFT] * 10 =
            inputs.throttle * maxForce * (IF inputs.boost THEN 13 ELSE 10)
       /\ AllWheels(wheelBrake, inputs.brake * maxBrakeForce)
  /\ ReverseTickUnboosted

\* C7 amended: the boost multiplier applies when boost is held and the
\* throttle is above 0.1.
C7_BoostAboveThreshold ==
  /\ ForwardTick =>
       /\ wheelEngine[FRONT_LEFT] * 10 =
            inputs.throttle * maxForce *
              (IF inputs.boost /\ inputs.throttle > 100 THEN 13 ELSE 10)
       /\ AllWheels(wheelBrake, inputs.brake * maxBrakeForce)
  /\ ReverseTickUnboosted

\* a forward tick with full throttle and boost
C7_BoostedTick ==
  /\ ForwardTick
  /\ inputs.boost /\ inputs.throttle = 1000 /\ inputs.brake = 1000
  /\ wheelEngine[FRONT_LEFT] = 5200000
  /\ wheelBrake[BACK_LEFT] = 500000

\* C8: every processed update leaves one brake value on all four wheels, one
\* engine force on the front pair and 0 on the rear pair, all of them those
\* of the tick's own frame: nothing of an earlier tick survives.
C8_AllWheelsWritten ==
  outcome = "done" =>
    /\ \A i \in WheelIdx : wheelBrake[i] = wheelBrake[FRONT_LEFT]
    /\ wheelEngine[FRONT_LEFT] = wheelEngine[FRONT_RIGHT]
    /\ wheelEngine[BACK_LEFT] = 0 /\ wheelEngine[BACK_RIGHT] = 0
    /\ ~inputs.reverse => AllWheels(wheelBrake, inputs.brake * maxBrakeForce)
    /\ inputs.reverse => wheelBrake[BACK_LEFT] \in {0, maxBrakeForce * 1500}
    /\ (~inputs.reverse /\ ~estimate.fwd) =>
         wheelEngine[FRONT_LEFT] >= inputs.throttle * maxForce

\* a second tick, forward with the brake released, with all four brakes at 0
\* and the engine force on the front pair only
C8_SecondTick ==
  /\ outcome = "done"
  /\ calls = 2
  /\ ~inputs.reverse /\ inputs.brake = 0 /\ inputs.throttle = 1000
  /\ AllWheels(wheelBrake, 0)
  /\ wheelEngine[FRONT_RIGHT] = 4000000
  /\ wheelEngine[BACK_RIGHT] = 0

(***************************************************************************)
(* The defensive early return of Vehicle.update, checked under Spec.       *)
(***************************************************************************)
\* C10: an update made while the raycast vehicle or the visual chassis is
\* missing changes nothing the controller owns and raises no exception, so
\* that the controller is still in its constructed state when both exist.
C10_NoOpUntilReady ==
  /\ [][(calls' = calls + 1 /\ ~(vehicleSet /\ chassisSet))
          => (outcome' = "skipped" /\ UNCHANGED controllerVars)]_vars
  /\ [](outcome = "skipped" =>
          /\ steeringAngle = 0 /\ speed = 0
          /\ steeringWheelRot = 0 /\ handsSteering = 0
          /\ wheelSteering \in {NoWheels, ZeroWheels}
          /\ wheelEngine \in {NoWheels, ZeroWheels}
          /\ wheelBrake \in {NoWheels, ZeroWheels}
          /\ bodyTorque = Zero3 /\ bodyForce = Zero3)

\* an update was made with the raycast vehicle created and the model still
\* loading
C10_SkippedWhileLoading ==
  /\ outcome = "skipped"
  /\ calls = 2
  /\ vehicleSet /\ ~chassisSet


(***************************************************************************)
(* The start impulse of the older Vehicle, checked under SpecLegacy.       *)
(***************************************************************************)
SameRequest(a, b) ==
  \/ a.reverse /\ b.reverse
  \/ ~a.reverse /\ ~b.reverse /\ a.throttle > 100 /\ b.throttle > 100

\* C9: the start impulse points forward (local -Z) for throttle and backward
\* for reverse, and is one-shot: a tick that kicked is not followed by another
\* kick of the same request while the speed is still below 2 km/h.
C9_OneShotKick ==
  /\ [](impulse # Zero3 =>
          /\ estimate.speed < 2 * KMH
          /\ impulse[1] = 0 /\ impulse[2] = 0
          /\ (inputs.reverse => impulse[3] > 0)
          /\ (~inputs.reverse => impulse[3] < 0))
  /\ [][(/\ outcome = "done" /\ impulse # Zero3
         /\ calls' = calls + 1
         /\ SameRequest(inputs, inputs')
         /\ estimate'.speed < 2 * KMH)
          => impulse' = Zero3]_vars


(***************************************************************************)
(* Properties of the InputManager.                                         *)
(***************************************************************************)
\* C11: after any interleaving of key events, pointer moves (also to
\* positions outside [-1,1]) and InputManager.update calls with dt >= 0, the
\* frame getInputs returns has steering in [-1,1], throttle in [0,1] and
\* brake in [0,1].  Checked under SpecInput.
C11_FrameInRange ==
  /\ getInputs.steering \in -1000 .. 1000
  /\ getInputs.throttle \in 0 .. 1000
  /\ getInputs.brake \in 0 .. 1000

\* the pointer left of the window with no steering key held, the steering at
\* the left stop, and both pedals fully pressed
C11_PointerOutside ==
  /\ mousePositionX = -1500 /\ "a" \notin keys
  /\ imDt = 100
  /\ getInputs.steering = -1000
  /\ getInputs.throttle = 1000 /\ getInputs.brake = 1000


\* a completed frame of the animation loop
FrameDone == pc = "idle" /\ calls > 0

C15_DeltaBounded ==
  /\ [](/\ delta \in 0 .. 100 /\ imDt \in 0 .. 100
        /\ stepDt \in 0 .. 100 /\ vehDt \in 0 .. 100
        /\ simulationSpeed \in 1 .. 20)
  /\ [](pc \in {"input", "physics"} => imDt = delta)
  /\ [](pc = "physics" => stepDt = delta)
  /\ [](FrameDone => (imDt = delta /\ stepDt = delta /\ vehDt = delta))
  /\ [][(pc = "idle" /\ pc' = "gameState") =>
          /\ isPaused => delta' = 0
          /\ delta' <= Quot((lastCallTime' - lastCallTime) * simulationSpeed, 10)
          /\ ~isPaused =>
               delta' = Min(100, Quot((lastCallTime' - lastCallTime)
                                        * simulationSpeed, 10))]_vars

\* a frame 16 ms after a frame that ended at 100 ms, at double speed
C15_DoubleSpeedFrame ==
  /\ FrameDone /\ ~isPaused
  /\ simulationSpeed = 20
  /\ lastCallTime = 116
  /\ delta = 32 /\ imDt = 32 /\ stepDt = 32 /\ vehDt = 32

\* C16: in every frame the wheel steering, engine and brake values and the
\* torque derived from the frame's inputs are on the body when the frame's
\* physics step runs.  (In the program the step comes first.)  Checked
\* under SpecDrive.
C16_MutationsBeforeStep ==
  (FrameDone /\ outcome = "done") =>
    /\ stepSaw.steering = wheelSteering
    /\ stepSaw.engine = wheelEngine
    /\ stepSaw.brake = wheelBrake


(***************************************************************************)
(* Properties of the steering and pedal smoothing of the InputManager.     *)
(***************************************************************************)
\* an InputManager.update call that worked with a positive deltaTime
InputTick == keys' = keys /\ mousePositionX' = mousePositionX /\ imDt' > 0

\* C13: when the steering target is 0 and the steering value is not,
\* InputManager.update moves the value toward 0 at the steeringReturn rate
\* (1.0 per second) and sets it to exactly 0 once its magnitude is below 0.1.
\* (In the program that branch is never reached: the value returns at the
\* steeringSpeed rate of 2.0 per second and is not snapped.)  Checked under
\* SpecWheel.
C13_ReturnsAtReturnRate ==
  [][(/\ InputTick
      /\ targetSteering(keys, mousePositionX) = 0
      /\ imSteeringWheel # 0)
       => imSteeringWheel' = nextSteeringWheelReturnFirst(imSteeringWheel, 0, imDt')]_vars

held(k, alt) == k \in keys \/ alt \in keys

\* C14: in every update with dt > 0, a held pedal's value rises by its press
\* rate (throttle 2, brake 3 per second) up to exactly 1 and stays there, a
\* released pedal's value falls by its release rate (throttle 3, brake 5 per
\* second, each greater than the press rate) down to exactly 0 and stays
\* there; so a pedal held from some time on reaches 1 and a pedal released
\* from some time on reaches 0 after finitely many updates.  Checked under
\* SpecPedalsLive.
C14_PedalRamps ==
  /\ [][InputTick =>
          /\ held("w", "arrowup") =>
               /\ imThrottle' = Min(1000, imThrottle + 2 * imDt')
               /\ imThrottle' >= imThrottle
               /\ imThrottle < 1000 => imThrottle' > imThrottle
          /\ ~held("w", "arrowup") =>
               /\ imThrottle' = Max(0, imThrottle - 3 * imDt')
               /\ imThrottle' <= imThrottle
               /\ imThrottle > 0 => imThrottle' < imThrottle
          /\ held("s", "arrowdown") =>
               /\ imBrake' = Min(1000, imBrake + 3 * imDt')
               /\ imBrake' >= imBrake
               /\ imBrake < 1000 => imBrake' > imBrake
          /\ ~held("s", "arrowdown") =>
               /\ imBrake' = Max(0, imBrake - 5 * imDt')
               /\ imBrake' <= imBrake
               /\ imBrake > 0 => imBrake' < imBrake]_vars
  /\ (<>[]held("w", "arrowup") => <>[](imThrottle = 1000))
  /\ (<>[]~held("w", "arrowup") => <>[](imThrottle = 0))
  /\ (<>[]held("s", "arrowdown") => <>[](imBrake = 1000))
  /\ (<>[]~held("s", "arrowdown") => <>[](imBrake = 0))

\* the throttle at 1 with its key held, the brake back at 0 after a release
\* that took it from 1 in two updates of 0.1 s
C14_FullThrottle ==
  /\ held("w", "arrowup") /\ imThrottle = 1000
  /\ ~held("s", "arrowdown") /\ imBrake = 0
  /\ imDt = 100


(***************************************************************************)
(* Properties of the estimator and the stability corrector, checked under  *)
(* SpecTilt.                                                               *)
(***************************************************************************)
\* a Vehicle.update call that was processed
ProcessedUpdate == calls' = calls + 1 /\ outcome' = "done"

\* the angle between the body's up axis and the world's, microradians, for
\* the orientations of the model
bodyTilt(q) ==
  CASE q \in {Identity, HalfTurnY, QuarterTurnY} -> 0
    [] q = SmallRollZ -> 489957
    [] q = QuarterTurnZ -> 1570796
    [] q = HalfTurnZ -> 3141593

\* C17: for every body state isMovingForward is true exactly when the
\* projection of the velocity onto the body's rotated local -Z axis is
\* negative, the reported speed is |projection| x 3.6 and never negative,
\* and the speed Vehicle.update stores equals the speed updateEngine used for
\* the same body state.
C17_EstimateAndStoredSpeed ==
  [][ProcessedUpdate =>
       /\ estimate'.fwd = (Dot(bodyVel, vmult(bodyQuat, Vec3(0, 0, -1))) < 0)
       /\ estimate'.speed = Abs(Dot(bodyVel, vmult(bodyQuat, Vec3(0, 0, -1)))) * 36
       /\ estimate'.speed >= 0
       /\ speed' = estimate'.speed]_vars

\* C18: an update that starts with the body's tilt at or below 30 degrees
\* leaves the body's accumulated torque as it was.
C18_NoTorqueBelowThreshold ==
  [][(ProcessedUpdate /\ bodyTilt(bodyQuat) <= 523599) =>
       bodyTorque' = bodyTorque]_vars

\* the second update, made with the body rolled by 28 degrees at a stored
\* speed of 20 km/h: the downforce along the rolled axis is on the body, the
\* torque is zero
C18_RolledBelowThreshold ==
  /\ outcome = "done" /\ calls = 2
  /\ bodyForce[1] # 0 /\ bodyForce[2] < 0
  /\ bodyTorque = Zero3

\* C19: an update that starts with the body's tilt above 30 degrees adds to
\* the body's torque stiffness x (tilt - threshold) along
\* normalize(cross(bodyUp, worldUp)), a non-zero correction, for every such
\* tilt including the inverted body.
C19_TorqueAboveThreshold ==
  [][(ProcessedUpdate /\ bodyTilt(bodyQuat) > 523599) =>
       /\ bodyTorque' # bodyTorque
       /\ bodyTorque' =
            vadd(bodyTorque,
                 scale(normalize(Cross(vmult(bodyQuat, Vec3(0, 1, 0)),
                                       Vec3(0, 1, 0))),
                       3000 * (bodyTilt(bodyQuat) - 523599)))]_vars


MaxSyncs == 3

synchronize ==
  LET newVis == chassisFromPhysics(bodyPos, bodyQuat)
  IN
  /\ vehicleSet /\ chassisSet
  /\ syncRuns < MaxSyncs
  /\ wheelsVis' =
       updateWheelPositions(wheelsVis, bodyPos, bodyQuat, wheelSteering)
  /\ chassisVis' = newVis
  /\ userData' =
       [userData EXCEPT !.forwardDirection = vmult(newVis.quat, Vec3(0, 0, 1))]
  /\ syncRuns' = syncRuns + 1
  /\ UNCHANGED <<vehicleSet, chassisSet, calls, outcome, steeringAngle, speed,
                 inputs, estimate, wheelSteering, wheelEngine, wheelBrake,
                 bodyVel, bodyQuat, bodyPos, bodyForce, bodyTorque, impulse,
                 steeringWheelRot, handsSteering>>
  /\ UNCHANGED <<inputVars, gameVars, loopVars, tiltVars, cameraVars, targetVars>>

NextSync ==
  \/ createPhysicsChassis /\ UNCHANGED outsideVehicle
  \* the model may hold 0, 3, 4, 5 or 8 wheel-named nodes
  \/ \E path \in {"loaded", "noValidPath", "loaderError"},
        found \in {0, 3, 4, 5, 8} :
       loadModelPath(path, found) /\ UNCHANGED outsideVehicle
  \/ \E v \in {Zero3, Vec3(0, 0, -1000)},
        q \in {Identity, HalfTurnY, QuarterTurnY, SmallRollZ},
        p \in {"spawn", "moved"} :
       /\ physicsStep(v, q, p)
       /\ syncRuns' = 0
       /\ UNCHANGED <<inputVars, gameVars, loopVars, tiltVars, cameraVars,
                      targetVars>>
  \/ synchronize

SpecSync == Init /\ [][NextSync]_vars

(***************************************************************************)
(* C21.  Running the transform synchronizer again with the physics state   *)
(* unchanged leaves the visual chassis and the visual wheels as the first  *)
(* run set them: the half turn is applied to a copy of the body's          *)
(* quaternion, so the visual chassis is one half turn from the body after  *)
(* every run, and no run writes the body's position or orientation.        *)
(***************************************************************************)
C21_SyncIsIdempotent ==
  [][syncRuns' = syncRuns + 1 =>
       /\ bodyQuat' = bodyQuat
       /\ bodyPos' = bodyPos
       /\ chassisVis'.quat = qmult(bodyQuat, HalfTurnY)
       /\ syncRuns >= 1 =>
            /\ chassisVis' = chassisVis
            /\ wheelsVis' = wheelsVis]_vars

\* a second run for a body the step has turned by a quarter
C21_SecondRun ==
  /\ syncRuns = 2
  /\ bodyQuat = QuarterTurnY
  /\ chassisVis = [pos |-> bodyPos, quat |-> qmult(QuarterTurnY, HalfTurnY)]


(***************************************************************************)
(* C22.  After Vehicle.init, whichever way loadModel ended and however     *)
(* many wheel meshes the model held, the visual wheel list has exactly the *)
(* four entries 0..3, and every run of updateWheelPositions gives visual   *)
(* wheel i the world transform of physics wheel i, for i in 0..3.          *)
(***************************************************************************)
C22_FourWheelsInOrder ==
  /\ [](chassisSet => DOMAIN wheelsVis = 0 .. 3)
  /\ [][syncRuns' = syncRuns + 1 =>
          /\ DOMAIN wheelsVis' = 0 .. 3
          /\ \A i \in 0 .. 3 :
               wheelsVis'[i] =
                 wheelWorldTransform(i, bodyPos, bodyQuat, wheelSteering[i])]_vars

\* the four visual wheels placed where the step moved the body
C22_WheelsPlaced ==
  /\ chassisSet
  /\ syncRuns >= 1
  /\ bodyPos = "moved"
  /\ \A i \in 0 .. 3 : wheelsVis[i].wheel = i /\ wheelsVis[i].pos = "moved"


(***************************************************************************)
(* The loop while driving with the Space key (README "Space: Handbrake",   *)
(* InputManager.getInputs line 127).                                       *)
(***************************************************************************)
NextHandbrake ==
  \/ createPhysicsChassis /\ UNCHANGED outsideVehicle
  \/ loadModel(TRUE) /\ UNCHANGED outsideVehicle
  \/ startGame
  \/ betweenFrames(keydown(" ") /\ UNCHANGED <<vehicleVars, gameVars>>)
  \/ betweenFrames(keyup(" ") /\ UNCHANGED <<vehicleVars, gameVars>>)
  \/ \E t \in DriveClock : animateGameState(t)
  \/ animateInput
  \/ \E v \in DriveVelocities : animatePhysics(v, Identity, "moved")
  \/ animateVehicle

SpecHandbrake == Init /\ [][NextHandbrake]_vars

(***************************************************************************)
(* C23.  The frame's handbrake flag is true exactly while Space is held,   *)
(* and a processed update whose frame has the handbrake set leaves some    *)
(* wheel with more brake force than the same frame without the handbrake   *)
(* gives it.                                                               *)
(***************************************************************************)
C23_HandbrakeBrakes ==
  /\ [](getInputs.handbrake <=> " " \in keys)
  /\ [][ProcessedUpdate /\ inputs'.handbrake =>
          LET f == engineForces(inputs'.throttle, inputs'.brake,
                                inputs'.reverse, inputs'.boost,
                                estimate'.fwd, estimate'.speed)
          IN \E i \in WheelIdx :
               wheelBrake'[i] > brakeValues(wheelBrake, f.brake)[i]]_vars


(***************************************************************************)
(* C24.  Every input frame carries a drift intensity between 0 and 1 and   *)
(* a spin factor between 0 and 3.0 (1/1000), the values the drift input    *)
(* builds up while it is held and lets decay when it is released.          *)
(***************************************************************************)
C24_DriftInEveryFrame ==
  /\ {"driftIntensity", "spinFactor"} \subseteq DOMAIN getInputs
  /\ getInputs.driftIntensity \in 0 .. 1000
  /\ getInputs.spinFactor \in 0 .. 3000


(***************************************************************************)
(* C26.  Vehicle.update reads the rigid body and never writes its          *)
(* position, orientation or linear velocity: after a processed update the  *)
(* three are what they were before it.                                     *)
(***************************************************************************)
C26_BodyTransformUntouched ==
  [][ProcessedUpdate =>
       /\ bodyPos' = bodyPos
       /\ bodyQuat' = bodyQuat
       /\ bodyVel' = bodyVel]_vars


(***************************************************************************)
(* The target angle of updateSteering (lines 559-572) as a function of the *)
(* steering input and this.speed, computed for two inputs at one speed.    *)
(***************************************************************************)
targetAngleOfPair(a, b, spd) ==
  /\ steerLo' = Min(a, b)
  /\ steerHi' = Max(a, b)
  /\ steerSpd' = spd
  /\ targetLo' = targetAngle(Min(a, b), spd)
  /\ targetHi' = targetAngle(Max(a, b), spd)
  /\ UNCHANGED <<vehicleVars, inputVars, gameVars, loopVars, tiltVars, syncVars,
                 cameraVars>>

\* steering inputs in [-1, 1], thousandths, around the 0.1 threshold
TargetInputs == {-1000, -100, -99, -50, 0, 50, 99, 100, 500, 1000}

NextTarget ==
  \* at 0, 25 and 100 km/h
  \E a \in TargetInputs, b \in TargetInputs, spd \in {0, 25 * KMH, 100 * KMH} :
    targetAngleOfPair(a, b, spd)

SpecTarget == Init /\ [][NextTarget]_vars

(***************************************************************************)
(* C27.  At a fixed speed the target angle does not increase when the      *)
(* steering input increases over [-1, 1], and an input just below 0.1      *)
(* never gives a target of larger magnitude than the input 0.1 does.       *)
(***************************************************************************)
C27_TargetMonotone ==
  /\ targetLo >= targetHi
  /\ (steerHi = 100 /\ steerLo >= 0) => Abs(targetLo) <= Abs(targetHi)


(***************************************************************************)
(* Vehicle.update called tick after tick with steering frames, the elapsed *)
(* time of each call kept in vehDt.  The physics step between two calls    *)
(* may change the body's velocity, and with it this.speed.                 *)
(***************************************************************************)
MaxSteerTicks == 3

steerTick(dt, in) ==
  /\ calls < MaxSteerTicks
  /\ updateCall(dt, in)
  /\ vehDt' = dt
  /\ UNCHANGED <<inputVars, gameVars, pc, gameStarted, stepDt, stepSaw,
                 tiltVars, syncVars, cameraVars, targetVars>>

ConvergeFrames ==
  [steering : {50, 1000}, throttle : {0}, brake : {0}, handbrake : {FALSE},
   reverse : {FALSE}, boost : {FALSE}]

NextConverge ==
  \/ createPhysicsChassis /\ UNCHANGED outsideVehicle
  \/ loadModel(TRUE) /\ UNCHANGED outsideVehicle
  \* the body at 0, 100 and 210 km/h
  \/ \E z \in {0, -5000, -10500} :
       physicsStep(Vec3(0, 0, z), Identity, "moved") /\ UNCHANGED outsideVehicle
  \* ticks of 0.05 s and 0.25 s
  \/ \E in \in ConvergeFrames, dt \in {50, 250} : steerTick(dt, in)

SpecConverge == Init /\ [][NextConverge]_vars

\* the target angle of the latest processed update, from the corrected
\* input it stored in chassis.userData (line 589)
latestTarget == Quot(-userData.steeringInput * maxSteeringAngle, 1000)

(***************************************************************************)
(* C28, as stated.  With the same steering input as in the tick before,    *)
(* speed < 200 km/h and dt > 0, a steering angle that has reached the      *)
(* target of the tick before stays where it is.                            *)
(***************************************************************************)
C28_StaysOnceReached ==
  [][(/\ ProcessedUpdate
      /\ vehDt' > 0
      /\ speed < 200 * KMH
      /\ outcome = "done"
      /\ inputs'.steering = inputs.steering
      /\ steeringAngle = latestTarget) => steeringAngle' = steeringAngle]_vars

(***************************************************************************)
(* C28, amended.  In every processed update with dt > 0, for the target    *)
(* angle of that tick: the distance between target and steering angle does *)
(* not grow, the angle does not pass the target, an angle within 0.001 rad *)
(* of the target becomes exactly the target (so it stays on a target that  *)
(* does not change), and at 200 km/h or more an angle further than 0.001   *)
(* rad from the target does not move.                                      *)
(***************************************************************************)
C28_ApproachesTickTarget ==
  [][(ProcessedUpdate /\ vehDt' > 0) =>
       LET target == targetAngle(inputs'.steering, speed)
           before == target - steeringAngle
           after == target - steeringAngle'
       IN /\ Abs(after) <= Abs(before)
          /\ (before >= 0 => after >= 0) /\ (before <= 0 => after <= 0)
          /\ Abs(before) <= 1000 => steeringAngle' = target
          /\ (speed >= 200 * KMH /\ Abs(before) > 1000) =>
               steeringAngle' = steeringAngle]_vars

\* three ticks with full steering input: the angle is on the target
C28_HeldOnTarget ==
  /\ calls = 3
  /\ outcome = "done"
  /\ vehDt > 0
  /\ inputs.steering = 1000
  /\ steeringAngle = latestTarget
  /\ steeringAngle = -maxSteeringAngle


(***************************************************************************)
(* CameraManager (src/unnamed/part_004): the transition from the front     *)
(* view to the view behind the car.  Progress is in 1/1000, elapsed times  *)
(* are in ms; the transition lasts transitionDuration = 1.0 s (line 123).  *)
(* A callback is named by what it does: "startGame" is the one the Play    *)
(* button passes (part_002 lines 109-121), "null" is no callback.          *)
(***************************************************************************)
MaxRequests == 2

\* CameraManager.init (lines 55-60)
cameraInit ==
  /\ ~camVehicle
  /\ camVehicle' = TRUE
  /\ UNCHANGED <<currentMode, isTransitioning, transitionProgress,
                 transitionCallback, transitionRequests, callbackRuns, camTick,
                 camDt, gameStarted>>

\* A guard that lets a second request restart the transition
ignoresRequestNever == FALSE

\* if (this.isTransitioning) return;  (line 97)
ignoresRequest == isTransitioning

\* CameraManager.transitionToGameView (lines 96-125).  Without a vehicle
\* this.vehicle.position throws at line 109, after the mode was set.
transitionToGameView(callback) ==
  /\ transitionRequests < MaxRequests
  /\ transitionRequests' = transitionRequests + 1
  /\ IF ignoresRequest
       THEN UNCHANGED <<currentMode, isTransitioning, transitionProgress,
                        transitionCallback>>
       ELSE IF ~camVehicle
       THEN /\ currentMode' = "third-person"
            /\ UNCHANGED <<isTransitioning, transitionProgress,
                           transitionCallback>>
       ELSE /\ currentMode' = "third-person"
            /\ isTransitioning' = TRUE
            /\ transitionProgress' = 0
            /\ transitionCallback' = callback
  /\ UNCHANGED <<camVehicle, callbackRuns, camTick, camDt, gameStarted>>

\* this.transitionCallback = null (line 182)
callbackAfterRun(callback) == "null"

\* CameraManager.update (lines 131-157) with updateCameraTransition
\* (lines 163-206); the camera's own position and look target are not kept
cameraUpdate(dt) ==
  LET progress == transitionProgress + dt
  IN
  /\ camTick' = 1 - camTick
  /\ camDt' = dt
  /\ IF camVehicle /\ isTransitioning
       THEN IF progress >= 1000
              THEN /\ transitionProgress' = 1000
                   /\ isTransitioning' = FALSE
                   /\ IF transitionCallback # "null"
                        THEN /\ callbackRuns' = callbackRuns + 1
                             /\ gameStarted' =
                                  IF transitionCallback = "startGame"
                                    THEN TRUE ELSE gameStarted
                             /\ transitionCallback' =
                                  callbackAfterRun(transitionCallback)
                        ELSE UNCHANGED <<callbackRuns, gameStarted,
                                         transitionCallback>>
              ELSE /\ transitionProgress' = progress
                   /\ UNCHANGED <<isTransitioning, callbackRuns, gameStarted,
                                  transitionCallback>>
       ELSE UNCHANGED <<isTransitioning, transitionProgress, callbackRuns,
                        gameStarted, transitionCallback>>
  /\ UNCHANGED <<camVehicle, currentMode, transitionRequests>>

\* what a camera call leaves alone besides the CameraManager and gameStarted
outsideCamera ==
  <<vehicleVars, inputVars, gameVars, pc, stepDt, vehDt, stepSaw, tiltVars,
    syncVars, targetVars>>

\* elapsed times in ms: none, a frame, 0.4 s, and more than the duration
CameraDts == {0, 100, 400, 1200}

NextCamera ==
  \/ cameraInit /\ UNCHANGED outsideCamera
  \/ \E cb \in {"null", "startGame"} :
       transitionToGameView(cb) /\ UNCHANGED outsideCamera
  \/ \E dt \in CameraDts : cameraUpdate(dt) /\ UNCHANGED outsideCamera

SpecCamera == Init /\ [][NextCamera]_vars

\* the loop calls update in every frame; frames with dt > 0 keep coming
SpecCameraLive ==
  /\ Init
  /\ [][NextCamera]_vars
  /\ WF_vars(\E dt \in CameraDts \ {0} : cameraUpdate(dt) /\ UNCHANGED outsideCamera)

(***************************************************************************)
(* C30.  A transitionToGameView call made while a transition is in         *)
(* progress changes nothing.  An update of a running transition whose      *)
(* accumulated progress reaches 1 ends it: isTransitioning becomes false,  *)
(* the callback is cleared and, if there was one, it is invoked once; an   *)
(* update that does not reach 1 invokes nothing, and no callback is ever   *)
(* invoked elsewhere.  An update with dt = 0 leaves the transition where   *)
(* it is, and with updates of dt > 0 coming a transition ends.             *)
(***************************************************************************)
C30_TransitionRunsOnce ==
  /\ [][(transitionRequests' = transitionRequests + 1 /\ isTransitioning) =>
          UNCHANGED <<currentMode, isTransitioning, transitionProgress,
                      transitionCallback, callbackRuns>>]_vars
  /\ [][(camTick' # camTick /\ isTransitioning) =>
          IF transitionProgress + camDt' >= 1000
            THEN /\ ~isTransitioning'
                 /\ transitionCallback' = "null"
                 /\ callbackRuns' =
                      callbackRuns + (IF transitionCallback # "null" THEN 1 ELSE 0)
            ELSE /\ isTransitioning'
                 /\ transitionCallback' = transitionCallback
                 /\ callbackRuns' = callbackRuns]_vars
  /\ [][callbackRuns' # callbackRuns =>
          camTick' # camTick /\ isTransitioning]_vars
  /\ [](~isTransitioning => transitionCallback = "null")
  /\ [][(camTick' # camTick /\ camDt' = 0) =>
          UNCHANGED <<isTransitioning, transitionProgress, callbackRuns>>]_vars
  /\ (isTransitioning ~> ~isTransitioning)

\* two requests, one of them ignored or without a callback, and the Play
\* button's callback run once at the end of its transition
C30_CompletedOnce ==
  /\ transitionRequests = 2
  /\ callbackRuns = 1
  /\ ~isTransitioning
  /\ transitionProgress = 1000
  /\ transitionCallback = "null"
  /\ gameStarted


(***************************************************************************)
(* DrivingSimulator with the Play button (src/unnamed/part_002): init      *)
(* gives the camera the loaded chassis, installs the button and starts the *)
(* loop (lines 66-85); a click starts the camera transition with the       *)
(* callback that sets gameStarted (lines 105-122); each frame ends with    *)
(* cameraManager.update(delta) (line 289), where that callback runs.       *)
(***************************************************************************)
MaxPlayFrames == 12

\* const delta = this.gameState.update(), for a loop started by init
playGameState(t) ==
  /\ pc = "idle"
  /\ vehicleSet /\ chassisSet /\ camVehicle
  /\ calls < MaxPlayFrames
  /\ gameStateUpdateAt(t)
  /\ pc' = "gameState"
  /\ UNCHANGED <<vehicleVars, inputVars, gameStarted, stepDt, vehDt, stepSaw,
                 tiltVars, syncVars, cameraVars, targetVars>>

\* this.cameraManager.update(delta)
animateCamera ==
  /\ pc = "vehicle"
  /\ cameraUpdate(delta)
  /\ pc' = "idle"
  /\ UNCHANGED <<vehicleVars, inputVars, gameVars, stepDt, vehDt, stepSaw,
                 tiltVars, syncVars, targetVars>>

\* this.cameraManager.init(this.vehicle.chassis) once the vehicle is loaded
simulatorReady ==
  /\ pc = "idle"
  /\ chassisSet
  /\ cameraInit
  /\ UNCHANGED outsideCamera

\* the click listener of the Play button
clickPlay ==
  /\ pc = "idle"
  /\ camVehicle
  /\ transitionToGameView("startGame")
  /\ UNCHANGED outsideCamera

NextPlay ==
  \/ createPhysicsChassis /\ UNCHANGED outsideVehicle
  \/ loadModel(TRUE) /\ UNCHANGED outsideVehicle
  \/ simulatorReady
  \/ clickPlay
  \/ betweenFrames(keydown("w") /\ UNCHANGED <<vehicleVars, gameVars>>)
  \/ betweenFrames(keyup("w") /\ UNCHANGED <<vehicleVars, gameVars>>)
  \* a frame every 100 ms
  \/ playGameState(lastCallTime + 100)
  \/ animateInput
  \/ animatePhysics(Zero3, Identity, "moved")
  \/ animateVehicleThen("vehicle")
  \/ animateCamera

SpecPlay == Init /\ [][NextPlay]_vars

(***************************************************************************)
(* C29.  While gameStarted is false every Vehicle.update of the loop gets  *)
(* the neutral frame, whatever keys are held.  gameStarted changes only    *)
(* from false to true, only in the camera update that ends the transition  *)
(* the Play button started and runs its callback; before a callback has    *)
(* run it is false.                                                        *)
(***************************************************************************)
C29_NeutralUntilStarted ==
  /\ [][(ProcessedUpdate /\ ~gameStarted) => inputs' = NeutralFrame]_vars
  /\ [][gameStarted' # gameStarted =>
          /\ ~gameStarted /\ gameStarted'
          /\ camTick' # camTick
          /\ isTransitioning /\ ~isTransitioning'
          /\ transitionProgress' = 1000
          /\ transitionCallback = "startGame"
          /\ callbackRuns' = callbackRuns + 1]_vars
  /\ [](callbackRuns = 0 => ~gameStarted)

\* the accelerator held through the transition: the pedal is down, the
\* vehicle was given the neutral frame
C29_KeysHeldInTransition ==
  /\ ~gameStarted
  /\ isTransitioning
  /\ transitionProgress >= 500
  /\ "w" \in keys
  /\ imThrottle > 0
  /\ outcome = "done"
  /\ inputs = NeutralFrame
  /\ pc = "vehicle"

=============================================================================
